---- MODULE Spec2Model ----
(***************************************************************************)
(* Tessellation of a parallel (constant-latitude arc) into device-space    *)
(* segments: src/core/src/renderable/line/parallel.rs.                     *)
(*                                                                         *)
(* Longitudes are fixed-point integers.  One grid unit is                   *)
(* PI / (N * num_vertices * 2^MAX_ITERATION * 2^K) radians, so that the    *)
(* divisions of the code (by 5 in subdivide_multi, by 2 in subdivide and   *)
(* in sub_valid_domain) are exact on the spans the inputs produce, as they *)
(* are (up to one ulp) in f64.  Where a division is not exact it rounds    *)
(* down, the fixed-point analogue of f64 rounding.                         *)
(*                                                                         *)
(* The latitude is fixed: the projection is described by what it does      *)
(* along the parallel, i.e. by the longitudes where it is undefined (band) *)
(* and by the device geometry subdivide measures (geom).                   *)
(***************************************************************************)
EXTENDS Integers, Sequences, FiniteSets

VARIABLES
    pc,         \* "call": the call is pending, "loop": inside the while loop, "done": returned
    band,       \* projection: <<lo, hi>>, undefined for lo <= lon < hi (cyclic when lo > hi)
    geom,       \* projection: device geometry measured by subdivide, see Measure
    d_alpha,    \* camera: get_aperture().to_radians() * 0.02, in grid units
    args,       \* arguments of the call
    l_valid,    \* sub_valid_domain: local l_valid
    l_invalid,  \* sub_valid_domain: local l_invalid
    n_iter,     \* sub_valid_domain: iterations of the while loop done so far
    ret         \* returned value

vars == <<pc, band, geom, d_alpha, args, l_valid, l_invalid, n_iter, ret>>

----------------------------------------------------------------------------
(* Bounds and program constants *)

\* input longitudes per half turn
N == 2

\* halvings sub_valid_domain can make exactly below the input grid
K == 2

\* a depth cap one too deep
MAX_ITERATION_off == 4 + 1

MAX_ITERATION == 4

\* one seed interval too many
num_vertices_off == 5 + 1

num_vertices == 5

\* 1e-6 rad, below one grid unit: for grid values x, x > PI + 1e-6 iff x > PI + 0
EPS == 0

RECURSIVE Pow2(_)
Pow2(n) == IF n = 0 THEN 1 ELSE 2 * Pow2(n - 1)

\* the input grid step
G == num_vertices * Pow2(MAX_ITERATION) * Pow2(K)

PI == N * G

TWICE_PI == 2 * PI

Abs(x) == IF x < 0 THEN -x ELSE x

Min(a, b) == IF a < b THEN a ELSE b

Max(a, b) == IF a < b THEN b ELSE a

\* smallest h with 2^h >= PI: no separation below PI can be halved more often
\* before it is at most one grid unit
RECURSIVE HalvingsFrom(_, _)
HalvingsFrom(h, p) == IF p >= PI THEN h ELSE HalvingsFrom(h + 1, 2 * p)

HalvingBound == HalvingsFrom(0, 1)

\* cap of the loop counter n_iter
MaxBisect == HalvingBound + 2

----------------------------------------------------------------------------
(* The projection along the parallel *)

\* Option<XYNDC>: None, or Some(v) with the vertex v == Some(v)[1]
None == <<>>

Some(v) == <<v>>

\* to_angle and the projection's trigonometry: a longitude and the same longitude
\* plus a full turn are the same point of the sphere
Norm(lon) == lon % TWICE_PI

InBand(x) ==
    IF band[1] <= band[2]
    THEN band[1] <= x /\ x < band[2]
    ELSE band[1] <= x \/ x < band[2]

\* crate::math::lonlat::proj at the fixed latitude: None outside the domain, else
\* the device vertex, which is identified by the point of the sphere it images
proj(lon) == IF InBand(Norm(lon)) THEN None ELSE Some(Norm(lon))

NoBand == <<0, 0>>

Bands ==
    { <<G + G \div 2, TWICE_PI>>,
      <<PI - 3, TWICE_PI>>,
      <<G \div 2 - G \div 8, G \div 2 + G \div 8>>,
      <<G \div 2 + 1, G \div 2 + 2>>,
      <<TWICE_PI - G \div 4, G \div 4>> }

\* tolerances of the bisection: 0 (aperture 0) and two that stop it on the exact grid
DAlphas == {0, PI \div Pow2(K), PI \div 2}

\* input longitudes, in [0, 2 pi)
LonGrid == {k * G : k \in 0 .. (2 * N - 1)}

----------------------------------------------------------------------------
(* is_in_lon_range *)

\* the test with the decreasing branch closed at its far end instead of its
\* near end
is_in_lon_range_end_inclusive(lon0, lon1, lon2) ==
    LET dlon == lon2 - lon1
    IN  IF dlon < 0
        THEN (dlon >= -PI) = (lon2 < lon0 /\ lon0 <= lon1)
        ELSE (dlon <= PI) = (lon1 <= lon0 /\ lon0 < lon2)

is_in_lon_range(lon0, lon1, lon2) ==
    LET dlon == lon2 - lon1
    IN  IF dlon < 0
        THEN (dlon >= -PI) = (lon2 <= lon0 /\ lon0 < lon1)
        ELSE (dlon <= PI) = (lon1 <= lon0 /\ lon0 < lon2)

\* the use of is_in_lon_range by a containment test: one call per edge of the
\* path lonA -> lonB -> lonC
Call_is_in_lon_range ==
    /\ pc = "call"
    /\ ret' = << is_in_lon_range(args.lon0, args.lonA, args.lonB),
                 is_in_lon_range(args.lon0, args.lonB, args.lonC) >>
    /\ pc' = "done"
    /\ UNCHANGED <<band, geom, d_alpha, args, l_valid, l_invalid, n_iter>>

LonRangeGrid == {k * (G \div 2) : k \in 0 .. (4 * N - 1)}

NoGeom == <<>>

InitLonRange ==
    /\ pc = "call"
    /\ band = NoBand
    /\ geom = NoGeom
    /\ d_alpha = 0
    /\ args \in [lon0 : LonRangeGrid, lonA : LonRangeGrid, lonB : LonRangeGrid,
                 lonC : LonRangeGrid]
    /\ l_valid = 0
    /\ l_invalid = 0
    /\ n_iter = 0
    /\ ret = None

NextLonRange == Call_is_in_lon_range

SpecLonRange == InitLonRange /\ [][NextLonRange]_vars

----------------------------------------------------------------------------
(* sub_valid_domain *)

\* the loop condition
bisect_continue(lv, li) == Abs(lv - li) > d_alpha

\* the loop body: the new <<l_valid, l_invalid>>
bisect_body(lv, li) ==
    LET lm == (lv + li) \div 2
    IN  IF proj(lm) # None THEN <<lm, li>> ELSE <<lv, lm>>

sub_valid_domain_ret_invalid(valid_lon, invalid_lon, lv, li) ==
    IF valid_lon > invalid_lon THEN <<li, valid_lon>> ELSE <<valid_lon, li>>

\* the returned pair
sub_valid_domain_ret(valid_lon, invalid_lon, lv, li) ==
    IF valid_lon > invalid_lon THEN <<lv, valid_lon>> ELSE <<valid_lon, lv>>

Enter_sub_valid_domain ==
    /\ pc = "call"
    /\ l_valid' = args.valid_lon
    /\ l_invalid' = args.invalid_lon
    /\ n_iter' = 0
    /\ pc' = "loop"
    /\ UNCHANGED <<band, geom, d_alpha, args, ret>>

Loop_sub_valid_domain ==
    /\ pc = "loop"
    /\ bisect_continue(l_valid, l_invalid)
    /\ n_iter < MaxBisect
    /\ l_valid' = bisect_body(l_valid, l_invalid)[1]
    /\ l_invalid' = bisect_body(l_valid, l_invalid)[2]
    /\ n_iter' = n_iter + 1
    /\ UNCHANGED <<pc, band, geom, d_alpha, args, ret>>

Return_sub_valid_domain ==
    /\ pc = "loop"
    /\ ~bisect_continue(l_valid, l_invalid)
    /\ ret' = sub_valid_domain_ret(args.valid_lon, args.invalid_lon, l_valid, l_invalid)
    /\ pc' = "done"
    /\ UNCHANGED <<band, geom, d_alpha, args, l_valid, l_invalid, n_iter>>

\* longitudes sub_valid_domain is called with: project passes them shifted by a
\* full turn when the span crosses the zero meridian
BisectLons == {k * (G \div 2) : k \in (-2 * N) .. (4 * N - 1)}

InitBisect ==
    /\ pc = "call"
    /\ band \in Bands
    /\ geom = NoGeom
    /\ d_alpha \in DAlphas
    /\ args \in [valid_lon : BisectLons, invalid_lon : BisectLons]
    /\ proj(args.valid_lon) # None
    /\ proj(args.invalid_lon) = None
    /\ Abs(args.valid_lon - args.invalid_lon) <= PI
    /\ l_valid = 0
    /\ l_invalid = 0
    /\ n_iter = 0
    /\ ret = None

NextBisect ==
    \/ Enter_sub_valid_domain
    \/ Loop_sub_valid_domain
    \/ Return_sub_valid_domain

SpecBisect == InitBisect /\ [][NextBisect]_vars

----------------------------------------------------------------------------
(* subdivide_multi / subdivide *)

\* What subdivide measures on the device plane, per kind of geometry:
\*   small_angle: theta.abs() < MAX_ANGLE_BEFORE_SUBDIVISION
\*   small_det:   det(&ab, &bc).abs() < 1e-2
\*   ab_l, bc_l:  the squared lengths of pm - p1 and p2 - pm
Kind ==
    [ straight |-> [small_angle |-> TRUE,  small_det |-> TRUE,  ab_l |-> 4,  bc_l |-> 4],
      bent     |-> [small_angle |-> TRUE,  small_det |-> FALSE, ab_l |-> 4,  bc_l |-> 4],
      sharp    |-> [small_angle |-> FALSE, small_det |-> FALSE, ab_l |-> 4,  bc_l |-> 4],
      short_ab |-> [small_angle |-> FALSE, small_det |-> FALSE, ab_l |-> 1,  bc_l |-> 16],
      short_bc |-> [small_angle |-> FALSE, small_det |-> FALSE, ab_l |-> 16, bc_l |-> 1] ]

KindNames == DOMAIN Kind

\* a projection's geometry by recursion depth: sharp (to be subdivided) at every
\* depth but at most one
Profiles ==
    {p \in [0 .. (MAX_ITERATION - 1) -> KindNames] :
        Cardinality({d \in DOMAIN p : p[d] # "sharp"}) <= 1}

\* one profile for the intervals of even index, one for those of odd index
Geoms == [even : Profiles, odd : Profiles]

\* The measurements of one subdivide call.  The projection is a pure function, so
\* they are a function of the interval: of its depth and of the parity of its
\* index.  Equal longitudes have equal vertices: a zero vector, whose normalize()
\* is NaN, so that theta and det are NaN and compare false.
Measure(lonA, lonM, lonB, iter) ==
    LET w == lonB - lonA
        parity == IF w = 0 THEN 0 ELSE (lonA \div w) % 2
        k == Kind[IF parity = 0 THEN geom.even[iter] ELSE geom.odd[iter]]
        ab_0 == Norm(lonA) = Norm(lonM)
        bc_0 == Norm(lonM) = Norm(lonB)
    IN  [ small_angle |-> k.small_angle /\ ~ab_0 /\ ~bc_0,
          small_det   |-> k.small_det /\ ~ab_0 /\ ~bc_0,
          ab_l        |-> IF ab_0 THEN 0 ELSE k.ab_l,
          bc_l        |-> IF bc_0 THEN 0 ELSE k.bc_l ]

\* ab_l.min(bc_l) / ab_l.max(bc_l) < 0.1; 0.0 / 0.0 is NaN and compares false
ratio_below_tenth(la, lb) ==
    /\ Max(la, lb) # 0
    /\ 10 * Min(la, lb) < Max(la, lb)

\* What a call appends to the Vec<XYNDC> it is given, and what it did:
\*   vertices: the vertices pushed, in order, two per segment
\*   lons:     the longitude each of them was projected from
\*   nproj:    the calls of proj made
\*   dropped:  whether a subdivide call returned without covering its interval
\*             (depth cap, undefined vertex, disparate lengths)
NoOutput == [vertices |-> <<>>, lons |-> <<>>, nproj |-> 0, dropped |-> FALSE]

\* the pushes of acc1 followed by those of acc2
then(acc1, acc2) ==
    [ vertices |-> acc1.vertices \o acc2.vertices,
      lons     |-> acc1.lons \o acc2.lons,
      nproj    |-> acc1.nproj + acc2.nproj,
      dropped  |-> acc1.dropped \/ acc2.dropped ]

\* vertices.push(pS); vertices.push(pE) for the vertices of lS and lE
push_segment(lS, lE) ==
    [NoOutput EXCEPT !.vertices = <<proj(lS)[1], proj(lE)[1]>>, !.lons = <<lS, lE>>]

emit_bent_from_p1(l1, l0, l2) == then(push_segment(l1, l0), push_segment(l1, l2))

\* nearly colinear but bent: p1 -> pm, pm -> p2
emit_bent(l1, l0, l2) == then(push_segment(l1, l0), push_segment(l0, l2))

emit_disparate_swapped(l1, l0, l2, la, lb) ==
    IF la > lb THEN push_segment(l1, l0) ELSE push_segment(l0, l2)

\* disparate lengths: one half only
emit_disparate(l1, l0, l2, la, lb) ==
    IF la < lb THEN push_segment(l1, l0) ELSE push_segment(l0, l2)

RECURSIVE subdivide(_, _, _)
subdivide(lon1, lon2, iter) ==
    IF iter < MAX_ITERATION
    THEN LET p1 == proj(lon1)
             p2 == proj(lon2)
             lon0 == (lon1 + lon2) \div 2
             pm == proj(lon0)
             projected == [NoOutput EXCEPT !.nproj = 3]
         IN  IF p1 # None /\ pm # None /\ p2 # None
             THEN LET m == Measure(lon1, lon0, lon2, iter)
                      vectors_nearly_colinear == m.small_angle
                  IN  IF vectors_nearly_colinear
                      THEN IF m.small_det
                           THEN then(projected, push_segment(lon1, lon2))
                           ELSE then(projected, emit_bent(lon1, lon0, lon2))
                      ELSE IF ratio_below_tenth(m.ab_l, m.bc_l)
                           THEN [then(projected,
                                      emit_disparate(lon1, lon0, lon2, m.ab_l, m.bc_l))
                                    EXCEPT !.dropped = TRUE]
                           ELSE then(projected,
                                     then(subdivide(lon1, lon0, iter + 1),
                                          subdivide(lon0, lon2, iter + 1)))
             ELSE [projected EXCEPT !.dropped = TRUE]
    ELSE [NoOutput EXCEPT !.dropped = TRUE]

\* the loop of subdivide_multi from seed interval i on
RECURSIVE subdivide_seeds(_, _, _)
subdivide_seeds(lon_s, dlon, i) ==
    IF i < num_vertices
    THEN LET seed1 == lon_s + i * dlon
             seed2 == seed1 + dlon
         IN  then(subdivide(seed1, seed2, 0), subdivide_seeds(lon_s, dlon, i + 1))
    ELSE NoOutput

subdivide_multi(lon_s, lon_e) ==
    LET dlon == (lon_e - lon_s) \div num_vertices
    IN  subdivide_seeds(lon_s, dlon, 0)

Call_subdivide ==
    /\ pc = "call"
    /\ ret' = subdivide(args.lon1, args.lon2, args.iter)
    /\ pc' = "done"
    /\ UNCHANGED <<band, geom, d_alpha, args, l_valid, l_invalid, n_iter>>

\* projections whose two profiles agree
UniformGeoms == {g \in Geoms : g.even = g.odd}

InitSubdivide ==
    /\ pc = "call"
    /\ band \in Bands \cup {NoBand}
    /\ geom \in UniformGeoms
    /\ d_alpha = 0
    /\ args \in [lon1 : LonGrid, lon2 : LonGrid, iter : 0 .. MAX_ITERATION]
    /\ args.lon1 <= args.lon2
    /\ l_valid = 0
    /\ l_invalid = 0
    /\ n_iter = 0
    /\ ret = None

NextSubdivide == Call_subdivide

SpecSubdivide == InitSubdivide /\ [][NextSubdivide]_vars

----------------------------------------------------------------------------
(* project *)

\* One run of sub_valid_domain's loop to its end, by the same condition and body
\* as the actions above.  done is FALSE when the loop is still running after
\* MaxBisect iterations.
RECURSIVE bisect_loop(_, _, _)
bisect_loop(lv, li, n) ==
    IF bisect_continue(lv, li)
    THEN IF n = MaxBisect
         THEN [done |-> FALSE, l_valid |-> lv, l_invalid |-> li]
         ELSE bisect_loop(bisect_body(lv, li)[1], bisect_body(lv, li)[2], n + 1)
    ELSE [done |-> TRUE, l_valid |-> lv, l_invalid |-> li]

sub_valid_domain(valid_lon, invalid_lon) ==
    LET r == bisect_loop(valid_lon, invalid_lon, 0)
    IN  [ returned |-> r.done,
          pair |-> sub_valid_domain_ret(valid_lon, invalid_lon, r.l_valid, r.l_invalid) ]

\* the forward length of the span
lon_len(lon1, lon2) ==
    IF lon1 > lon2 THEN lon2 + TWICE_PI - lon1 ELSE lon2 - lon1

split_unwrapped(lon1) == <<lon1, lon1 + PI>>

\* the split of a span longer than PI: <<lon1 as rewrapped, lon_mid>>
split(lon1) ==
    IF lon1 + PI >= TWICE_PI
    THEN <<lon1 - TWICE_PI, lon1 - TWICE_PI + PI>>
    ELSE <<lon1, lon1 + PI>>

append_halves_reversed(first, second) ==
    [ vertices |-> second.vertices \o first.vertices,
      lons     |-> second.lons \o first.lons ]

\* vertices = first_half_meridian; vertices.append(&mut second_half_meridian)
append_halves(first, second) ==
    [ vertices |-> first.vertices \o second.vertices,
      lons     |-> first.lons \o second.lons ]

\* What a call of project returns and, beside it, what it did:
\*   returned: FALSE when a sub_valid_domain under it never returns
\*   vertices, lons: as in NoOutput
\*   arcs:  per subdivide_multi call, the number of proj calls made under it
\*   calls: the calls of project, in call order, each with its arguments, its
\*          lon_len and its depth in the recursion of project
\*   dropped: as in NoOutput
RECURSIVE project(_, _, _)
project(lon1, lon2, depth) ==
    LET len == lon_len(lon1, lon2)
        call == [lon1 |-> lon1, lon2 |-> lon2, lon_len |-> len, depth |-> depth]
    IN  IF len > PI + EPS
        THEN LET lon1w == split(lon1)[1]
                 lon_mid == split(lon1)[2]
                 first_half_meridian == project(lon1w, lon_mid, depth + 1)
                 second_half_meridian == project(lon_mid, lon2, depth + 1)
                 vertices == append_halves(first_half_meridian, second_half_meridian)
             IN  [ returned |-> first_half_meridian.returned
                                    /\ second_half_meridian.returned,
                   vertices |-> vertices.vertices,
                   lons     |-> vertices.lons,
                   arcs     |-> first_half_meridian.arcs \o second_half_meridian.arcs,
                   calls    |-> <<call>> \o first_half_meridian.calls
                                         \o second_half_meridian.calls,
                   dropped  |-> first_half_meridian.dropped
                                    \/ second_half_meridian.dropped ]
        ELSE LET crosses == lon1 + len > TWICE_PI
                 lon2n == IF crosses THEN lon1 + len - TWICE_PI ELSE lon1 + len
                 lon1n == IF crosses THEN lon1 - TWICE_PI ELSE lon1
                 v1 == proj(lon1n)
                 v2 == proj(lon2n)
                 sub == IF v1 = None
                        THEN sub_valid_domain(lon2n, lon1n)
                        ELSE sub_valid_domain(lon1n, lon2n)
                 span == IF v1 # None /\ v2 # None THEN <<lon1n, lon2n>> ELSE sub.pair
                 vertices == subdivide_multi(span[1], span[2])
             IN  IF v1 = None /\ v2 = None
                 THEN [ returned |-> TRUE, vertices |-> <<>>, lons |-> <<>>,
                        arcs |-> <<>>, calls |-> <<call>>, dropped |-> FALSE ]
                 ELSE IF (v1 = None \/ v2 = None) /\ ~sub.returned
                 THEN [ returned |-> FALSE, vertices |-> <<>>, lons |-> <<>>,
                        arcs |-> <<>>, calls |-> <<call>>, dropped |-> FALSE ]
                 ELSE [ returned |-> TRUE, vertices |-> vertices.vertices,
                        lons |-> vertices.lons, arcs |-> <<vertices.nproj>>,
                        calls |-> <<call>>, dropped |-> vertices.dropped ]

Call_project ==
    /\ pc = "call"
    /\ ret' = project(args.lon1, args.lon2, 0)
    /\ pc' = "done"
    /\ UNCHANGED <<band, geom, d_alpha, args, l_valid, l_invalid, n_iter>>

\* Requirement of project: lon1 and lon2 in [0, 2 pi), one of the two projectable.
\* Projections defined everywhere are taken with every geometry, those with an
\* undefined band with the uniform ones.
InitProject ==
    /\ pc = "call"
    /\ band \in Bands \cup {NoBand}
    /\ geom \in Geoms
    /\ d_alpha \in DAlphas
    /\ \/ band = NoBand /\ d_alpha = PI \div 2
       \/ band # NoBand /\ geom \in UniformGeoms
    /\ args \in [lon1 : LonGrid, lon2 : LonGrid]
    /\ proj(args.lon1) # None \/ proj(args.lon2) # None
    /\ l_valid = 0
    /\ l_invalid = 0
    /\ n_iter = 0
    /\ ret = None

NextProject == Call_project

SpecProject == InitProject /\ [][NextProject]_vars

----------------------------------------------------------------------------
(* Claims about is_in_lon_range, under SpecLonRange *)

\* the edge a -> b crosses longitude 0
Wraps(a, b) == Abs(b - a) > PI

\* the direction of travel along the edge a -> b: 1 towards increasing longitude,
\* -1 towards decreasing longitude, 0 for an edge of no length
Dir(a, b) ==
    IF a = b THEN 0
    ELSE IF Wraps(a, b) THEN (IF b > a THEN -1 ELSE 1)
    ELSE (IF b > a THEN 1 ELSE -1)

\* lon0 sits on the vertex shared by the two edges of a longitude-monotone path,
\* of which exactly one crosses longitude 0
SharedVertexCase ==
    /\ args.lon0 = args.lonB
    /\ Dir(args.lonA, args.lonB) # 0
    /\ Dir(args.lonA, args.lonB) = Dir(args.lonB, args.lonC)
    /\ Wraps(args.lonA, args.lonB) # Wraps(args.lonB, args.lonC)

\* C6: a point on the vertex shared by a wrapping and a non-wrapping edge of a
\* longitude-monotone path is inside the longitude range of exactly one of the
\* two edges.
C6_SharedVertexCountedOnce ==
    (pc = "done" /\ SharedVertexCase) => (ret[1] # ret[2])

C6_Witness ==
    /\ pc = "done"
    /\ SharedVertexCase
    /\ Wraps(args.lonB, args.lonC)
    /\ ret = <<FALSE, TRUE>>

----------------------------------------------------------------------------
(* Claims about sub_valid_domain, under SpecBisect *)

\* the projection is defined below L == band[1] and undefined from L on, and the
\* call is made with valid_lon < L < invalid_lon
HardEdgeCall ==
    /\ band[2] = TWICE_PI
    /\ 0 <= args.valid_lon
    /\ args.valid_lon < band[1]
    /\ band[1] < args.invalid_lon
    /\ args.invalid_lon < TWICE_PI

\* C1 as stated: the returned interval is at most d_alpha wide and contains L.
C1_ReturnsBracketOfEdge ==
    (pc = "done" /\ HardEdgeCall) =>
        /\ ret[2] - ret[1] <= d_alpha
        /\ ret[1] <= band[1]
        /\ band[1] <= ret[2]

\* C1 as amended: the returned interval is the projectable sub-span
\* (valid_lon, l_valid): it starts at valid_lon and ends at a projectable longitude
\* below L that is within d_alpha of L.
C1_ReturnsValidSubSpan ==
    (pc = "done" /\ HardEdgeCall) =>
        /\ ret = <<args.valid_lon, l_valid>>
        /\ ret[1] <= ret[2]
        /\ proj(ret[2]) # None
        /\ ret[2] < band[1]
        /\ band[1] - ret[2] <= d_alpha

C1_Witness ==
    /\ pc = "done"
    /\ HardEdgeCall
    /\ n_iter >= 2
    /\ ret[2] - ret[1] > d_alpha
    /\ ret[2] > args.valid_lon

\* C10 as stated: the loop ends within a bounded number of iterations, the
\* separation halving until it is at most d_alpha (a separation below PI grid units
\* can be halved HalvingBound times at most), and in the loop l_valid is projectable
\* and l_invalid is not.
C10_BisectionTerminates ==
    /\ n_iter <= HalvingBound
    /\ pc = "loop" => (proj(l_valid) # None /\ proj(l_invalid) = None)

----------------------------------------------------------------------------
(* Claims about subdivide, under SpecSubdivide *)

\* the midpoint longitude of the call in args
ArgLon0 == (args.lon1 + args.lon2) \div 2

\* what the call in args measures
ArgMeasure == Measure(args.lon1, ArgLon0, args.lon2, args.iter)

\* the call reaches the disparate-length test and passes it
DisparateCase ==
    /\ args.iter < MAX_ITERATION
    /\ proj(args.lon1) # None
    /\ proj(ArgLon0) # None
    /\ proj(args.lon2) # None
    /\ ~ArgMeasure.small_angle
    /\ ratio_below_tenth(ArgMeasure.ab_l, ArgMeasure.bc_l)

\* C8 as stated: in the disparate-length branch subdivide emits one segment, the
\* longer of p1 -> pm and pm -> p2, and does not recurse.
C8_EmitsLongerHalf ==
    (pc = "done" /\ DisparateCase) =>
        /\ ret.nproj = 3
        /\ \/ ret.lons = <<args.lon1, ArgLon0>> /\ ArgMeasure.ab_l > ArgMeasure.bc_l
           \/ ret.lons = <<ArgLon0, args.lon2>> /\ ArgMeasure.bc_l > ArgMeasure.ab_l

\* C8 as amended: in the disparate-length branch subdivide emits one segment, the
\* shorter of p1 -> pm and pm -> p2, and does not recurse.
C8_EmitsShorterHalf ==
    (pc = "done" /\ DisparateCase) =>
        /\ ret.nproj = 3
        /\ Len(ret.vertices) = 2
        /\ \/ ret.lons = <<args.lon1, ArgLon0>> /\ ArgMeasure.ab_l < ArgMeasure.bc_l
           \/ ret.lons = <<ArgLon0, args.lon2>> /\ ArgMeasure.bc_l < ArgMeasure.ab_l

C8_Witness ==
    /\ pc = "done"
    /\ DisparateCase
    /\ ArgMeasure.bc_l < ArgMeasure.ab_l
    /\ ret.lons = <<ArgLon0, args.lon2>>

----------------------------------------------------------------------------
(* Claims about project, under SpecProject *)

\* the forward length of the requested span
ArgLen == lon_len(args.lon1, args.lon2)

\* the forward distance from lon1 of the requested span to longitude l
Off(l) == (l - args.lon1) % TWICE_PI

\* the longitudes of [0, 2 pi) where the projection is undefined
BandLons ==
    IF band[1] <= band[2]
    THEN band[1] .. (band[2] - 1)
    ELSE (band[1] .. (TWICE_PI - 1)) \cup (0 .. (band[2] - 1))

\* the projection is defined at every longitude of the requested span
SpanDefined == \A x \in BandLons : Off(x) > ArgLen

\* the undefined band lies strictly inside the requested span
BandInsideSpan ==
    /\ BandLons # {}
    /\ \A x \in BandLons : 0 < Off(x) /\ Off(x) < ArgLen

NSeg == Len(ret.vertices) \div 2

Returned == pc = "done" /\ ret.returned

\* each segment ends on the vertex the next one starts on
Continuous == \A i \in 1 .. (NSeg - 1) : ret.vertices[2 * i] = ret.vertices[2 * i + 1]

\* C2 as stated: on a span where the projection is defined everywhere the returned
\* segments are continuous, whatever branch the subdivide calls take.
C2_ContinuousWhateverBranch == (Returned /\ SpanDefined) => Continuous

\* C2 as amended: on a span where the projection is defined everywhere the returned
\* segments are continuous provided no subdivide call takes the disparate-length
\* branch or is stopped by the depth limit.
C2_ContinuousUnlessDropped == (Returned /\ SpanDefined /\ ~ret.dropped) => Continuous

C2_Witness ==
    /\ Returned
    /\ SpanDefined
    /\ ~ret.dropped
    /\ ArgLen > PI
    /\ args.lon1 + PI >= TWICE_PI
    /\ NSeg > 4 * num_vertices

\* C3 as stated: a span that is split at the antipode, under a projection defined
\* everywhere, gives at most 5 * 2^4 = 80 segments.
C3_AtMost80Segments ==
    (Returned /\ band = NoBand /\ ArgLen > PI) => NSeg <= 5 * 16

\* C3 as amended: such a span gives at most 2 * 5 * 2^4 = 160 segments, 80 for
\* each of its two halves.
C3_AtMost160Segments ==
    (Returned /\ band = NoBand /\ ArgLen > PI) => NSeg <= 2 * 5 * 16

C3_Witness ==
    /\ Returned
    /\ band = NoBand
    /\ ArgLen > PI
    /\ NSeg = 2 * 5 * 16

\* C4 as stated: at most 5 * (2^5 - 1) = 155 calls of the projection under one
\* subdivide_multi call.
C4_AtMost155Projections ==
    pc = "done" => \A a \in DOMAIN ret.arcs : ret.arcs[a] <= 5 * 31

\* C4 as amended: at most 5 * 3 * (2^4 - 1) = 225 calls of the projection under
\* one subdivide_multi call: three for each subdivide call above the depth limit.
C4_AtMost225Projections ==
    pc = "done" => \A a \in DOMAIN ret.arcs : ret.arcs[a] <= 5 * 3 * 15

C4_Witness ==
    /\ pc = "done"
    /\ \E a \in DOMAIN ret.arcs : ret.arcs[a] = 5 * 3 * 15

\* C5: a span longer than PI is split once, into [lon1', mid] and [mid, lon2] with
\* mid in [0, 2 pi), lon1' equal to lon1 modulo 2 pi, and forward lengths PI and
\* lon_len - PI; neither half is split again.
C5_SplitOnce ==
    (pc = "done" /\ ArgLen > PI) =>
        /\ Len(ret.calls) = 3
        /\ \A c \in DOMAIN ret.calls : ret.calls[c].depth <= 1
        /\ ret.calls[2].lon2 = ret.calls[3].lon1
        /\ ret.calls[2].lon2 \in 0 .. (TWICE_PI - 1)
        /\ Norm(ret.calls[2].lon1) = args.lon1
        /\ ret.calls[3].lon2 = args.lon2
        /\ ret.calls[2].lon_len = PI
        /\ ret.calls[3].lon_len = ArgLen - PI
        /\ ret.calls[2].lon_len + ret.calls[3].lon_len = ret.calls[1].lon_len

C5_Witness ==
    /\ pc = "done"
    /\ ArgLen > PI
    /\ args.lon1 + PI >= TWICE_PI
    /\ ret.calls[2].lon1 < 0
    /\ Len(ret.calls) = 3

\* C7 as stated: when both ends of a span of length at most PI are projectable
\* and the projection is undefined on a band strictly inside the span, no returned
\* segment runs over a longitude of the band.
C7_NoSegmentOverBand ==
    ( /\ Returned
      /\ ArgLen <= PI
      /\ proj(args.lon1) # None
      /\ proj(args.lon2) # None
      /\ BandInsideSpan ) =>
        \A i \in 1 .. NSeg : \A x \in BandLons :
            ~(Off(ret.lons[2 * i - 1]) <= Off(x) /\ Off(x) <= Off(ret.lons[2 * i]))

\* C9: the returned segments run left to right along the span: each starts below
\* where it ends, none starts before the end of the one before it, and those of
\* the first half of a split come before those of the second half.
C9_LeftToRight ==
    Returned =>
        /\ \A i \in 1 .. NSeg : Off(ret.lons[2 * i - 1]) < Off(ret.lons[2 * i])
        /\ \A i \in 1 .. (NSeg - 1) : Off(ret.lons[2 * i]) <= Off(ret.lons[2 * i + 1])
        /\ \A i, j \in 1 .. NSeg :
               (Off(ret.lons[2 * i]) <= PI /\ Off(ret.lons[2 * j - 1]) >= PI
                    /\ Off(ret.lons[2 * j]) > PI)
                   => i < j

C9_Witness ==
    /\ Returned
    /\ ArgLen > PI
    /\ band # NoBand
    /\ \E i, j \in 1 .. NSeg : Off(ret.lons[2 * i]) <= PI /\ Off(ret.lons[2 * j - 1]) >= PI

====
